---- MODULE Spec2Model ----
(***************************************************************************)
(* Model of the RAG pipeline of eft-library-agent:                         *)
(*   services/rag.py   run_rag_pipeline, run_rag_pipeline_stream,          *)
(*                     build_context                                       *)
(*   tools/history.py  save_message, get_history                           *)
(*   tools/retriever.py search_rag                                         *)
(*   tools/llm.py      chat_llm, chat_llm_stream                           *)
(*   db/connection.py  get_pool                                            *)
(*   main.py           the save_message tool                               *)
(* A request is a coroutine (blocking variant) or an async generator       *)
(* (streaming variant); the model has one action per stretch of code       *)
(* between two suspension points (await / yield).                          *)
(***************************************************************************)
EXTENDS Integers, Sequences, FiniteSets, TLC

\* ---------------------------------------------------------------- bounds
MaxTime == 1          \* the database clock NOW() takes the values 0..MaxTime
MaxLines == 2         \* upstream lines one streaming completion delivers
MaxToolCalls == 1     \* direct calls of the save_message tool
MaxRows == 3          \* rows of chat_messages when get_history is checked
MaxLimit == 3         \* largest limit get_history and search_rag are called with
MaxPools == 3                      \* pools created during one run of the process
MaxCalls == 11                     \* operations in flight on the pool at once
MaxDocs == 3          \* documents build_context is called with

\* ------------------------------------------------------------ value sets
Reqs == {"r1", "r2"}
Sessions == {"s1", "s2"}
InitialSessions == {"s1"}          \* chat_sessions rows that exist at start
Variants == {"blocking", "stream"}
Langs == {"ko", "ja"}
NoTable == "None"                  \* Python None for source_table
ToolRoles == {"assistant", "system"} \* roles the tool is called with
ToolSessions == {"s1"}                \* sessions the tool is called for
Deltas == {"", "a", "b"}           \* message.content of one upstream line
Answers == {"", "ab"}              \* message.content of a blocking response

VARIABLES
  now,            \* database clock
  pool,           \* db.connection._pool: "None" or "open"
  conn,           \* settings of the pooled connection while it is in the pool
  chat_messages,  \* table chat_messages, in insertion order
  chat_sessions,  \* table chat_sessions: session_id -> updated_at
  lastSave,       \* what the most recent save_message call did
  toolCalls,      \* number of direct save_message tool calls so far
  args,           \* per request: the arguments of the pipeline call
  pc,             \* per request: position of the coroutine / generator
  frame,          \* per request: local variables of the pipeline
  steps,          \* per request: the calls the pipeline has issued, in order
  events,         \* per request: SSE events the generator has yielded
  llm,            \* per request: state of the completion-service call
  sent,           \* per request: the body POSTed to /api/chat (<<>>: none)
  raised,         \* per request: exception propagated to the caller
  upstream,       \* per request: the lines of the completion response body
  http,           \* per request: the HTTP request and the status answered
  scopes,         \* `async with pool.acquire()` scopes of one pool, by stage
  pools,          \* db.connection: the _pool handle and the pools created
  getters         \* per caller: position inside get_pool / close_pool

vars == <<now, pool, conn, chat_messages, chat_sessions, lastSave, toolCalls,
          args, pc, frame, steps, events, llm, sent, raised,
         upstream, http, scopes, pools, getters>>

\* the state no pipeline step touches
others == <<upstream, http, scopes, pools, getters>>

\* the state of the database tables and of the pipelines
pipelines == <<now, pool, conn, chat_messages, chat_sessions, lastSave, toolCalls,
               args, pc, frame, steps, events, llm, sent, raised>>

\* ------------------------------------------------------- generic helpers
Last(s) == s[Len(s)]

Min(a, b) == IF a < b THEN a ELSE b

IsPrefix(s, t) == /\ Len(s) <= Len(t)
                  /\ \A i \in 1..Len(s) : s[i] = t[i]

Range(s) == {s[i] : i \in DOMAIN s}

Take(s, n) == SubSeq(s, 1, Min(n, Len(s)))

\* decimal digits of a natural number, as Python's str(int) prints them
DigitStr(d) == CASE d = 0 -> "0" [] d = 1 -> "1" [] d = 2 -> "2" [] d = 3 -> "3"
                 [] d = 4 -> "4" [] d = 5 -> "5" [] d = 6 -> "6" [] d = 7 -> "7"
                 [] d = 8 -> "8" [] d = 9 -> "9"

RECURSIVE NatStr(_)
NatStr(n) == IF n < 10 THEN DigitStr(n) ELSE NatStr(n \div 10) \o DigitStr(n % 10)

\* ------------------------------------------------------ db/connection.py
\* get_pool: the pool is created on the first call and reused afterwards
get_pool(p) == IF p = "None" THEN "open" ELSE p

\* ------------------------------------------------- tools/history.py: save
\* mutant of ValidRole: the role is not checked
ValidRole_AcceptsAny(role) == TRUE

\* the role check of save_message
ValidRole(role) == role \in {"user", "assistant"}

\* mutant of InsertMessage: an upsert keyed by (session_id, created_at)
\* replaces the row of the same session written at the same time
InsertMessage_Upsert(msgs, session_id, role, content, lang, source_docs, t) ==
  IF \E i \in 1..Len(msgs) : msgs[i].session_id = session_id /\ msgs[i].created_at = t
  THEN LET i == CHOOSE i \in 1..Len(msgs) :
                  msgs[i].session_id = session_id /\ msgs[i].created_at = t
       IN  [msgs EXCEPT ![i] = [id |-> i, session_id |-> session_id, role |-> role,
                                content |-> content, lang |-> lang,
                                source_docs |-> source_docs, created_at |-> t]]
  ELSE Append(msgs, [id |-> Len(msgs) + 1, session_id |-> session_id, role |-> role,
                     content |-> content, lang |-> lang, source_docs |-> source_docs,
                     created_at |-> t])

\* mutant of InsertMessage: the source_docs parameter is not bound, the
\* column takes its default
InsertMessage_NoDocs(msgs, session_id, role, content, lang, source_docs, t) ==
  Append(msgs, [id |-> Len(msgs) + 1, session_id |-> session_id, role |-> role,
                content |-> content, lang |-> lang, source_docs |-> <<>>,
                created_at |-> t])

\* INSERT INTO chat_messages ... RETURNING id, created_at
InsertMessage(msgs, session_id, role, content, lang, source_docs, t) ==
  Append(msgs, [id |-> Len(msgs) + 1, session_id |-> session_id, role |-> role,
                content |-> content, lang |-> lang, source_docs |-> source_docs,
                created_at |-> t])

\* mutant of UpdateSession: the session stamp is not written
UpdateSession_Noop(sess, session_id, t) == sess

\* UPDATE chat_sessions SET updated_at = NOW() WHERE session_id = $1
\* (a session id that matches no row updates nothing and raises nothing)
UpdateSession(sess, session_id, t) ==
  IF session_id \in DOMAIN sess THEN [sess EXCEPT ![session_id] = t] ELSE sess

\* How one save_message call can end.  The two statements run on a
\* connection in autocommit mode (no conn.transaction()), so each one is
\* durable as soon as it returns.
\*   ValueError     the role check raised, before get_pool()
\*   acquire_error  get_pool() / pool.acquire() raised
\*   insert_error   the INSERT raised
\*   update_error   the INSERT was applied, then the UPDATE raised
\*   ok             both statements ran, the descriptor was returned
SaveOutcomes == {"ok", "ValueError", "acquire_error", "insert_error", "update_error"}

NoSave == [caller |-> "none", session_id |-> "none", role |-> "none",
           out |-> "none", conn |-> FALSE, id |-> 0, updated |-> 0, at |-> 0]

\* save_message(session_id, role, content, lang, source_docs) called by
\* `caller` and ending as `out`; source_docs <<>> stands for None and for [].
save_message(caller, session_id, role, content, lang, source_docs, out) ==
  /\ out \in SaveOutcomes
  /\ (out = "ValueError") <=> ~ValidRole(role)
  /\ pool' = IF out = "ValueError" THEN pool ELSE get_pool(pool)
  /\ chat_messages' =
       IF out \in {"ok", "update_error"}
       THEN InsertMessage(chat_messages, session_id, role, content, lang,
                          source_docs, now)
       ELSE chat_messages
  /\ chat_sessions' =
       IF out = "ok" THEN UpdateSession(chat_sessions, session_id, now)
       ELSE chat_sessions
  /\ lastSave' =
       [caller |-> caller, session_id |-> session_id, role |-> role, out |-> out,
        conn |-> out \in {"ok", "insert_error", "update_error"},
        id |-> IF chat_messages' # chat_messages THEN Len(chat_messages') ELSE 0,
        updated |-> IF out = "ok" /\ session_id \in DOMAIN chat_sessions
                    THEN 1 ELSE 0,
        at |-> now]

\* -------------------------------------------------- tools/history.py: get
SessionRows(msgs, session_id) ==
  SelectSeq(msgs, LAMBDA m : m.session_id = session_id)

\* ORDER BY created_at DESC (desc) or ASC: every order the database may
\* return the rows of S in; rows with equal created_at come in any order
RECURSIVE OrderByCreatedAt(_, _)
OrderByCreatedAt(S, desc) ==
  IF S = {} THEN {<<>>}
  ELSE LET first == { x \in S : \A y \in S :
                        IF desc THEN x.created_at >= y.created_at
                        ELSE x.created_at <= y.created_at }
       IN  UNION { { <<x>> \o q : q \in OrderByCreatedAt(S \ {x}, desc) } :
                   x \in first }

\* mutant of NewestFirst: the inner query takes the oldest rows
NewestFirst_Oldest(msgs, session_id, limit) ==
  { Take(q, limit) :
      q \in OrderByCreatedAt(Range(SessionRows(msgs, session_id)), FALSE) }

\* the inner query: WHERE session_id = $1 ORDER BY created_at DESC LIMIT $2
NewestFirst(msgs, session_id, limit) ==
  { Take(q, limit) :
      q \in OrderByCreatedAt(Range(SessionRows(msgs, session_id)), TRUE) }

\* mutant of OldestFirst: the rows are returned as the inner query gave them
OldestFirst_AsSelected(rows) == {rows}

\* the outer query: SELECT role, content FROM (...) sub ORDER BY created_at ASC
OldestFirst(rows) == OrderByCreatedAt(Range(rows), FALSE)

\* conn.fetch(...) of get_history: the row sequences the query may return
FetchHistory(msgs, session_id, limit) ==
  UNION { OldestFirst(sub) : sub \in NewestFirst(msgs, session_id, limit) }

\* [ChatMessage(role=row["role"], content=row["content"]) for row in rows]
ChatMessages(rows) ==
  [i \in 1..Len(rows) |-> [role |-> rows[i].role, content |-> rows[i].content]]

\* get_history: the results the call may return
get_history(msgs, session_id, limit) ==
  { ChatMessages(rows) : rows \in FetchHistory(msgs, session_id, limit) }

\* ------------------------------------------------------ tools/retriever.py
\* Table rag_documents.  dist is the cosine distance embedding <=> $1 to the
\* embedding of the request's query, in units of 1/DistScale.
DistScale == 100000

rag_documents ==
  { [source_table |-> "quest", source_id |-> "q1", lang |-> "ko",
     content |-> "Q1", dist |-> 12344],
    [source_table |-> "boss",  source_id |-> "b1", lang |-> "ko",
     content |-> "B1", dist |-> 30000],
    [source_table |-> "quest", source_id |-> "q2", lang |-> "ko",
     content |-> "Q2", dist |-> 45678],
    [source_table |-> "quest", source_id |-> "q3", lang |-> "en",
     content |-> "Q3", dist |-> 20005],
    [source_table |-> "boss",  source_id |-> "b2", lang |-> "en",
     content |-> "B2", dist |-> 20005],
    [source_table |-> "item",  source_id |-> "i1", lang |-> "en",
     content |-> "I1", dist |-> 0],
    [source_table |-> "item",  source_id |-> "i2", lang |-> "en",
     content |-> "I2", dist |-> 130005] }

\* IVF_PROBES = int(os.getenv("IVF_PROBES")): the value of a deployment
IVF_PROBES == 10

\* ivfflat.probes of a session that has not set it
DefaultProbes == 1

\* no transaction-local value of ivfflat.probes
NoLocal == 0

\* A connection as pool.acquire() hands it out and as release leaves it: no
\* transaction block open, every setting at its session default (release
\* resets the session).
PooledConn == [in_txn |-> FALSE, session |-> DefaultProbes, local |-> NoLocal]

\* conn.execute("SET LOCAL ivfflat.probes = v"): the value lasts until the
\* current transaction ends.  With no transaction block open the statement
\* is a transaction of its own, which ends when the statement returns: the
\* value is gone before the next statement.
SetLocalProbes(c, v) == IF c.in_txn THEN [c EXCEPT !.local = v] ELSE c

\* the ivfflat.probes a statement on connection c runs with
ProbesInEffect(c) == IF c.local # NoLocal THEN c.local ELSE c.session

\* end of `async with pool.acquire() as conn`
Release(c) == PooledConn

\* WHERE lang = $2 [AND source_table = $3]; `if source_table:` is false for
\* None and for the empty string
Matching(lang, source_table) ==
  { d \in rag_documents :
      /\ d.lang = lang
      /\ (source_table \in {NoTable, ""} \/ d.source_table = source_table) }

\* ORDER BY embedding <=> $1::vector (ascending distance): the orders the
\* query may produce; rows at the same distance come in any order
RECURSIVE OrderByDistance(_)
OrderByDistance(S) ==
  IF S = {} THEN {<<>>}
  ELSE LET first == { x \in S : \A y \in S : x.dist <= y.dist }
       IN  UNION { { <<x>> \o q : q \in OrderByDistance(S \ {x}) } : x \in first }

\* mutant of Similarity: the distance itself is reported
Similarity_Distance(dist) ==
  LET x == dist
      q == x \div 10
      r == x % 10
  IN  IF r > 5 \/ (r = 5 /\ q % 2 = 1) THEN q + 1 ELSE q

\* round(float(1 - distance), 4), in units of 1/10000; Python rounds half
\* to even
Similarity(dist) ==
  LET x == DistScale - dist
      q == x \div 10
      r == x % 10
  IN  IF r > 5 \/ (r = 5 /\ q % 2 = 1) THEN q + 1 ELSE q

\* RagDocument(...) built from one row
RagDocument(row) ==
  [source_table |-> row.source_table, source_id |-> row.source_id,
   lang |-> row.lang, content |-> row.content,
   similarity |-> Similarity(row.dist)]

\* search_rag when the embedding call and the query succeed: the results
\* the call may return
search_rag(lang, limit, source_table) ==
  { [i \in 1..Len(Take(q, limit)) |-> RagDocument(q[i])] :
      q \in OrderByDistance(Matching(lang, source_table)) }

\* ----------------------------------------------------- services/rag.py
\* str(float) of a similarity given in units of 1/10000, e.g. 8766 -> "0.8766",
\* 7000 -> "0.7", 10000 -> "1.0"
RECURSIVE FracStr(_, _)
FracStr(n, width) ==
  IF width = 1 THEN DigitStr(n)
  ELSE IF n % 10 = 0 THEN FracStr(n \div 10, width - 1)
  ELSE FracStr(n \div 10, width - 1) \o DigitStr(n % 10)

FloatStr(sim) ==
  IF sim < 0 THEN "-" \o NatStr((-sim) \div 10000) \o "." \o FracStr((-sim) % 10000, 4)
  ELSE NatStr(sim \div 10000) \o "." \o FracStr(sim % 10000, 4)

\* mutant of ContextPart: the documents are numbered from 0
ContextPart_FromZero(i, doc) ==
  "[doc " \o NatStr(i - 1) \o "] (source: " \o doc.source_table \o ", similarity: "
    \o FloatStr(doc.similarity) \o ")\n" \o doc.content

\* one "[doc i] (source: t, similarity: s)\ncontent" part (the labels are
\* Korean in the source)
ContextPart(i, doc) ==
  "[doc " \o NatStr(i) \o "] (source: " \o doc.source_table \o ", similarity: "
    \o FloatStr(doc.similarity) \o ")\n" \o doc.content

RECURSIVE JoinParts(_, _)
JoinParts(docs, i) ==
  IF i > Len(docs) THEN ""
  ELSE IF i = Len(docs) THEN ContextPart(i, docs[i])
  ELSE ContextPart(i, docs[i]) \o "\n\n" \o JoinParts(docs, i + 1)

build_context(docs) == IF docs = <<>> THEN "" ELSE JoinParts(docs, 1)

\* mutant of SourceDocs: the projection lists the documents in reverse
SourceDocs_Reversed(docs) ==
  [i \in 1..Len(docs) |->
     [source_table |-> docs[Len(docs) + 1 - i].source_table,
      source_id |-> docs[Len(docs) + 1 - i].source_id,
      similarity |-> docs[Len(docs) + 1 - i].similarity]]

\* the source_docs projection both pipelines build from docs
SourceDocs(docs) ==
  [i \in 1..Len(docs) |->
     [source_table |-> docs[i].source_table, source_id |-> docs[i].source_id,
      similarity |-> docs[i].similarity]]

\* ------------------------------------------------------------ initial state
\* rows already in chat_messages when the request arrives, written before
\* the clock of the model starts
InitialMessages ==
  << [id |-> 1, session_id |-> "s1", role |-> "user", content |-> "q0",
      lang |-> "ko", source_docs |-> <<>>, created_at |-> -2],
     [id |-> 2, session_id |-> "s1", role |-> "assistant", content |-> "a0",
      lang |-> "ko", source_docs |-> <<>>, created_at |-> -1] >>

\* the arguments of run_rag_pipeline / run_rag_pipeline_stream
Args == [variant : Variants, session_id : Sessions, lang : Langs,
         rag_limit : {2}, history_limit : {2}, source_table : {NoTable}]

DefaultArgs == [variant |-> "blocking", session_id |-> "s1", lang |-> "ko",
                rag_limit |-> 2, history_limit |-> 2, source_table |-> NoTable]

user_query(r) == "query " \o r

EmptyFrame == [rows |-> <<>>, history |-> <<>>, docs |-> <<>>, context |-> "",
               source_docs |-> <<>>, messages |-> <<>>, answer |-> "",
               full_answer |-> "", lines |-> 0, lastDone |-> FALSE,
               userMsg |-> 0, asstMsg |-> 0, probes |-> 0]

NoError == [step |-> "none", exc |-> "none"]

\* ----------------------------------------------- state outside the pipeline
\* no response body is fixed in advance: the lines arrive as they come
NoBody == <<>>

\* no HTTP request: the pipeline is called directly
NoRequest == [route |-> "none", session_id |-> FALSE, query |-> FALSE, status |-> 0]

\* the operations that acquire a pooled connection, and the statements each
\* runs inside its scope (history.py 20-41, 56-66, retriever.py 23-43)
PoolOps == {"save_message", "get_history", "search_rag"}
Statements(op) ==
  CASE op = "save_message" -> 2       \* INSERT, UPDATE
    [] op = "get_history"  -> 1       \* SELECT
    [] op = "search_rag"   -> 2       \* SET LOCAL, SELECT
Stages == {<<op, k>> : op \in PoolOps, k \in 0..1} \ {<<"get_history", 1>>}

\* no operation is waiting for or holding a connection
NoScopes == [waiting |-> [op \in PoolOps |-> 0],
             running |-> [st \in Stages |-> 0],
             held    |-> 0]

\* _pool = None (connection.py 4) and no pool has been created
NoPools == [handle |-> 0, created |-> <<>>]

\* the tasks that call get_pool() and close_pool()
Callers == {"c1", "c2", "c3"}
IdleCaller == [pc |-> "idle", got |-> 0, target |-> 0]

InitWith(active) ==
  /\ now = 0
  /\ pool = "None"
  /\ conn = PooledConn
  /\ chat_messages = InitialMessages
  /\ chat_sessions = [s \in InitialSessions |-> 0]
  /\ lastSave = NoSave
  /\ toolCalls = 0
  /\ args \in {f \in [Reqs -> Args] : \A r \in Reqs \ active : f[r] = DefaultArgs}
  /\ pc = [r \in Reqs |-> IF r \in active THEN "Idle" ELSE "Absent"]
  /\ frame = [r \in Reqs |-> EmptyFrame]
  /\ steps = [r \in Reqs |-> <<>>]
  /\ events = [r \in Reqs |-> <<>>]
  /\ llm = [r \in Reqs |-> "none"]
  /\ sent = [r \in Reqs |-> <<>>]
  /\ raised = [r \in Reqs |-> NoError]
  /\ upstream = [r \in Reqs |-> NoBody]
  /\ http = [r \in Reqs |-> NoRequest]
  /\ scopes = NoScopes
  /\ pools = NoPools
  /\ getters = [c \in Callers |-> IdleCaller]

Init == InitWith({"r1"})

\* ------------------------------------------------------- pipeline: steps 1-4
\* mutant of Before: the search does not wait for the user-message save
Before_SearchBeforeSave(variant, step) ==
  CASE step = "get_history"            -> "Idle"
    [] step = "save_message:user"      -> "HistoryFetched"
    [] step = "search_rag"             -> "HistoryFetched"
    [] step = "build_context"          -> "Retrieved"
    [] step = "chat_llm"               -> "ContextBuilt"
    [] step = "yield docs"             -> "ContextBuilt"
    [] step = "chat_llm_stream"        -> "DocsYielded"
    [] step = "save_message:assistant" ->
         IF variant = "blocking" THEN "Answered" ELSE "DoneYielded"

\* mutant of Before: the user message is saved before the history is fetched
Before_SaveBeforeHistory(variant, step) ==
  CASE step = "get_history"            -> "UserPersisted"
    [] step = "save_message:user"      -> "Idle"
    [] step = "search_rag"             -> "HistoryFetched"
    [] step = "build_context"          -> "Retrieved"
    [] step = "chat_llm"               -> "ContextBuilt"
    [] step = "yield docs"             -> "ContextBuilt"
    [] step = "chat_llm_stream"        -> "DocsYielded"
    [] step = "save_message:assistant" ->
         IF variant = "blocking" THEN "Answered" ELSE "DoneYielded"

\* The position a pipeline must be at to issue each call: the statements of
\* run_rag_pipeline(_stream) in program order.
Before(variant, step) ==
  CASE step = "get_history"            -> "Idle"
    [] step = "save_message:user"      -> "HistoryFetched"
    [] step = "search_rag"             -> "UserPersisted"
    [] step = "build_context"          -> "Retrieved"
    [] step = "chat_llm"               -> "ContextBuilt"
    [] step = "yield docs"             -> "ContextBuilt"
    [] step = "chat_llm_stream"        -> "DocsYielded"
    [] step = "save_message:assistant" ->
         IF variant = "blocking" THEN "Answered" ELSE "DoneYielded"

\* the pipeline issues `step` and the step ends normally in position `to`
Proceed(r, step, to) ==
  /\ steps' = [steps EXCEPT ![r] = Append(@, step)]
  /\ pc' = [pc EXCEPT ![r] = to]
  /\ raised' = raised

\* mutant of Raise: the exception is caught and the pipeline carries on as
\* if the step had ended normally
Raise_Swallow(r, step, exc) ==
  /\ steps' = [steps EXCEPT ![r] = Append(@, step)]
  /\ pc' = [pc EXCEPT ![r] =
       CASE step = "get_history"            -> "HistoryFetched"
         [] step = "save_message:user"      -> "UserPersisted"
         [] step = "search_rag"             -> "Retrieved"
         [] step = "save_message:assistant" -> "AssistantPersisted"]
  /\ raised' = [raised EXCEPT ![r] = [step |-> step, exc |-> exc]]

\* the pipeline issues `step`, which raises `exc`: nothing catches it, the
\* exception leaves the pipeline
Raise(r, step, exc) ==
  /\ steps' = [steps EXCEPT ![r] = Append(@, step)]
  /\ pc' = [pc EXCEPT ![r] = "Failed"]
  /\ raised' = [raised EXCEPT ![r] = [step |-> step, exc |-> exc]]

\* rag.py 39 / 91: history = await get_history(session_id, limit=history_limit)
GetHistory(r) ==
  /\ pc[r] = Before(args[r].variant, "get_history")
  /\ pool' = get_pool(pool)
  /\ \/ /\ \E rows \in FetchHistory(chat_messages, args[r].session_id,
                                        args[r].history_limit) :
             frame' = [frame EXCEPT ![r].rows = rows,
                                    ![r].history = ChatMessages(rows)]
        /\ Proceed(r, "get_history", "HistoryFetched")
     \/ /\ frame' = frame
        /\ Raise(r, "get_history", "PostgresError")
  /\ UNCHANGED <<others, now, conn, chat_messages, chat_sessions, lastSave, toolCalls, args,
                 events, llm, sent>>

\* rag.py 42 / 94: await save_message(session_id, "user", user_query, lang)
SaveUser(r) ==
  /\ pc[r] = Before(args[r].variant, "save_message:user")
  /\ \E out \in SaveOutcomes :
       /\ save_message(r, args[r].session_id, "user", user_query(r),
                       args[r].lang, <<>>, out)
       /\ IF out = "ok"
          THEN /\ frame' = [frame EXCEPT ![r].userMsg = lastSave'.id]
               /\ Proceed(r, "save_message:user", "UserPersisted")
          ELSE /\ frame' = frame
               /\ Raise(r, "save_message:user", out)
  /\ UNCHANGED <<others, now, conn, toolCalls, args, events, llm, sent>>

\* rag.py 45-50 / 97-102: docs = await search_rag(...)
Search(r) ==
  /\ pc[r] = Before(args[r].variant, "search_rag")
  /\ \/ \E docs \in search_rag(args[r].lang, args[r].rag_limit,
                                args[r].source_table) :
          LET c == SetLocalProbes(conn, IVF_PROBES)   \* retriever.py 24
          IN  /\ frame' = [frame EXCEPT ![r].docs = docs,
                                        ![r].probes = ProbesInEffect(c)]
              /\ conn' = Release(c)
              /\ pool' = get_pool(pool)
              /\ Proceed(r, "search_rag", "Retrieved")
     \/ /\ frame' = frame          \* get_embedding raised, before get_pool()
        /\ pool' = pool
        /\ conn' = conn
        /\ Raise(r, "search_rag", "HTTPError")
     \/ /\ frame' = frame          \* SET LOCAL or the SELECT raised
        /\ pool' = get_pool(pool)
        /\ conn' = Release(SetLocalProbes(conn, IVF_PROBES))
        /\ Raise(r, "search_rag", "PostgresError")
  /\ UNCHANGED <<others, now, chat_messages, chat_sessions, lastSave, toolCalls, args,
                 events, llm, sent>>

\* rag.py 51 / 103: context = build_context(docs)
BuildContext(r) ==
  /\ pc[r] = Before(args[r].variant, "build_context")
  /\ frame' = [frame EXCEPT ![r].context = build_context(frame[r].docs)]
  /\ Proceed(r, "build_context", "ContextBuilt")
  /\ UNCHANGED <<others, now, conn, pool, chat_messages, chat_sessions, lastSave, toolCalls,
                 args, events, llm, sent>>

\* ------------------------------------------------------------ tools/llm.py
\* SYSTEM_PROMPTS.get(lang, SYSTEM_PROMPTS["ko"])
SystemPrompt(lang) ==
  IF lang \in {"ko", "en", "ja"} THEN "SYSTEM_PROMPTS[" \o lang \o "]"
  ELSE "SYSTEM_PROMPTS[ko]"

\* msg_list: the copy of the turns with the context put before the last
\* user turn (llm.py 90-94 / 129-133)
msg_list(messages, context) ==
  IF context # "" /\ messages # <<>> /\ Last(messages).role = "user"
  THEN [messages EXCEPT ![Len(messages)].content =
          "[reference]\n" \o context \o "\n\nquestion: " \o @]
  ELSE messages

\* payload (llm.py 96-107 / 135-146): the system prompt, then the turns of
\* `messages` (the payload is built from messages, not from msg_list)
Payload(messages, context, lang, stream) ==
  [messages |-> <<[role |-> "system", content |-> SystemPrompt(lang)]>>
                  \o messages,
   stream |-> stream]

\* mutant of Messages: the turns are kept in one module-level list, which a
\* run reuses when another run has filled it
Messages_SharedList(r) ==
  IF \E o \in Reqs \ {r} : frame[o].messages # <<>>
  THEN frame[CHOOSE o \in Reqs \ {r} : frame[o].messages # <<>>].messages
  ELSE Append(frame[r].history, [role |-> "user", content |-> user_query(r)])

\* mutant of Messages: the turns are the fetched history alone
Messages_HistoryOnly(r) == frame[r].history

\* messages = [*history, ChatMessage(role="user", content=user_query)]
Messages(r) == Append(frame[r].history, [role |-> "user", content |-> user_query(r)])

\* ------------------------------------------------ blocking variant: step 5
\* rag.py 54-55, llm.py 88-114: the POST of chat_llm is issued; the pipeline
\* calls chat_llm without lang, so lang takes its default "ko"
ChatIssue(r) ==
  /\ args[r].variant = "blocking"
  /\ pc[r] = Before(args[r].variant, "chat_llm")
  /\ frame' = [frame EXCEPT ![r].messages = Messages(r)]
  /\ sent' = [sent EXCEPT ![r] = Payload(Messages(r), frame[r].context, "ko", FALSE)]
  /\ llm' = [llm EXCEPT ![r] = "open"]
  /\ Proceed(r, "chat_llm", "Generating")
  /\ UNCHANGED <<others, now, conn, pool, chat_messages, chat_sessions, lastSave, toolCalls,
                 args, events>>

\* llm.py 115-120: the response arrives; raise_for_status may raise
\* HTTPError, resp.json() JSONDecodeError, and result["message"]["content"]
\* KeyError when the body has no message or no content
ChatReturn(r) ==
  /\ args[r].variant = "blocking"
  /\ pc[r] = "Generating"
  /\ \/ \E answer \in Answers :
          /\ frame' = [frame EXCEPT ![r].answer = answer]
          /\ llm' = [llm EXCEPT ![r] = "returned"]
          /\ pc' = [pc EXCEPT ![r] = "Answered"]
          /\ raised' = raised
     \/ \E exc \in {"HTTPError", "JSONDecodeError", "KeyError"} :
          /\ frame' = frame
          /\ llm' = [llm EXCEPT ![r] = "failed"]
          /\ pc' = [pc EXCEPT ![r] = "Failed"]
          /\ raised' = [raised EXCEPT ![r] = [step |-> "chat_llm", exc |-> exc]]
  /\ UNCHANGED <<others, now, conn, pool, chat_messages, chat_sessions, lastSave, toolCalls,
                 args, steps, events, sent>>

\* rag.py 58-72 (blocking) and 129-130 (streaming, after the consumer has
\* resumed the generator from the `done` yield):
\* await save_message(session_id, "assistant", answer, lang, source_docs)
SaveAssistant(r) ==
  /\ pc[r] = Before(args[r].variant, "save_message:assistant")
  /\ LET blocking == args[r].variant = "blocking"
         source_docs == IF blocking THEN SourceDocs(frame[r].docs)
                        ELSE frame[r].source_docs
         content == IF blocking THEN frame[r].answer ELSE frame[r].full_answer
     IN  \E out \in SaveOutcomes :
           /\ save_message(r, args[r].session_id, "assistant", content,
                           args[r].lang, source_docs, out)
           /\ IF out = "ok"
              THEN /\ frame' = [frame EXCEPT ![r].asstMsg = lastSave'.id,
                                             ![r].source_docs = source_docs]
                   /\ Proceed(r, "save_message:assistant", "AssistantPersisted")
              ELSE /\ frame' = [frame EXCEPT ![r].source_docs = source_docs]
                   /\ Raise(r, "save_message:assistant", out)
  /\ UNCHANGED <<others, now, conn, toolCalls, args, events, llm, sent>>

\* ----------------------------------------------- streaming variant: step 5
\* mutant of DocsEvent: the docs event is sent without the provenance list
DocsEvent_Empty(source_docs) == [type |-> "docs", docs |-> <<>>, content |-> ""]

DocsEvent(source_docs) == [type |-> "docs", docs |-> source_docs, content |-> ""]
TokenEvent(token) == [type |-> "token", docs |-> <<>>, content |-> token]
DoneEvent == [type |-> "done", docs |-> <<>>, content |-> ""]

Emit(r, event) == events' = [events EXCEPT ![r] = Append(@, event)]

\* rag.py 108-116: source_docs is built and the docs event is yielded; the
\* generator is suspended at the yield
YieldDocs(r) ==
  /\ args[r].variant = "stream"
  /\ pc[r] = Before(args[r].variant, "yield docs")
  /\ frame' = [frame EXCEPT ![r].source_docs = SourceDocs(frame[r].docs)]
  /\ Emit(r, DocsEvent(SourceDocs(frame[r].docs)))
  /\ pc' = [pc EXCEPT ![r] = "DocsYielded"]
  /\ UNCHANGED <<others, now, conn, pool, chat_messages, chat_sessions, lastSave, toolCalls,
                 args, steps, llm, sent, raised>>

\* rag.py 119-121, llm.py 128-154: the consumer asks for the next event;
\* full_answer = "" and the streaming POST of chat_llm_stream is issued
PullAfterDocs(r) ==
  /\ args[r].variant = "stream"
  /\ pc[r] = Before(args[r].variant, "chat_llm_stream")
  /\ frame' = [frame EXCEPT ![r].messages = Messages(r), ![r].full_answer = ""]
  /\ sent' = [sent EXCEPT ![r] = Payload(Messages(r), frame[r].context, "ko", TRUE)]
  /\ llm' = [llm EXCEPT ![r] = "open"]
  /\ Proceed(r, "chat_llm_stream", "Generating")
  /\ UNCHANGED <<others, now, conn, pool, chat_messages, chat_sessions, lastSave, toolCalls,
                 args, events>>

\* mutant of StreamRaise: the pipeline catches the stream's exception and
\* finishes the response as usual
StreamRaise_Swallow(r, exc) ==
  /\ llm' = [llm EXCEPT ![r] = "failed"]
  /\ events' = [events EXCEPT ![r] = Append(@, DoneEvent)]
  /\ pc' = [pc EXCEPT ![r] = "DoneYielded"]
  /\ raised' = [raised EXCEPT ![r] = [step |-> "chat_llm_stream", exc |-> exc]]

\* the completion stream raises inside chat_llm_stream; the exception leaves
\* the `async for` of the pipeline (rag.py 121) and the generator
StreamRaise(r, exc) ==
  /\ llm' = [llm EXCEPT ![r] = "failed"]
  /\ pc' = [pc EXCEPT ![r] = "Failed"]
  /\ raised' = [raised EXCEPT ![r] = [step |-> "chat_llm_stream", exc |-> exc]]
  /\ events' = events

\* mutant of StreamEnd: the generator stops without the done event
StreamEnd_NoDone(r) ==
  /\ llm' = [llm EXCEPT ![r] = "exhausted"]
  /\ events' = events
  /\ pc' = [pc EXCEPT ![r] = "DoneYielded"]
  /\ raised' = raised

\* chat_llm_stream is exhausted (break at llm.py 169, or aiter_lines ended):
\* the `async for` of the pipeline ends and rag.py 126 yields the done event
StreamEnd(r) ==
  /\ llm' = [llm EXCEPT ![r] = "exhausted"]
  /\ Emit(r, DoneEvent)
  /\ pc' = [pc EXCEPT ![r] = "DoneYielded"]
  /\ raised' = raised

\* mutant of Accumulate: the buffer keeps only the latest delta
Accumulate_Overwrite(full_answer, token) == token

\* rag.py 122: full_answer += token
Accumulate(full_answer, token) == full_answer \o token

\* rag.py 122-123: one delta reaches the pipeline
YieldToken(r, token) ==
  /\ Emit(r, TokenEvent(token))
  /\ pc' = [pc EXCEPT ![r] = "TokenYielded"]
  /\ llm' = llm
  /\ raised' = raised

\* one line of the response body as resp.aiter_lines() delivers it: an empty
\* line, a line json.loads rejects, or a JSON object; `content` is
\* data.get("message", {}).get("content", "") and `done` is data.get("done")
BlankLine == [kind |-> "blank", content |-> "", done |-> FALSE]
GarbageLine == [kind |-> "garbage", content |-> "", done |-> FALSE]
DataLine(content, done) == [kind |-> "data", content |-> content, done |-> done]
UpstreamLines ==
  {BlankLine, GarbageLine} \cup {DataLine(c, d) : c \in Deltas, d \in BOOLEAN}

\* mutant of StreamStep: the loop has no `break`, a done line is treated as
\* any other line
StreamStep_NoBreak(r, line) ==
  CASE line.kind = "blank" ->
         /\ frame' = [frame EXCEPT ![r].lines = @ + 1]
         /\ UNCHANGED <<pc, llm, events, raised>>
    [] line.kind = "garbage" ->
         /\ frame' = [frame EXCEPT ![r].lines = @ + 1]
         /\ StreamRaise(r, "JSONDecodeError")
    [] line.kind = "data" ->
         IF line.content # ""
         THEN /\ frame' = [frame EXCEPT ![r].lines = @ + 1,
                                        ![r].full_answer =
                                           Accumulate(@, line.content)]
              /\ YieldToken(r, line.content)
         ELSE /\ frame' = [frame EXCEPT ![r].lines = @ + 1]
              /\ UNCHANGED <<pc, llm, events, raised>>

\* llm.py 156-169: one pass of `async for line in resp.aiter_lines()`
StreamStep(r, line) ==
  CASE line.kind = "blank" ->                       \* `if not line: continue`
         /\ frame' = [frame EXCEPT ![r].lines = @ + 1]
         /\ UNCHANGED <<pc, llm, events, raised>>
    [] line.kind = "garbage" ->                     \* json.loads raises
         /\ frame' = [frame EXCEPT ![r].lines = @ + 1]
         /\ StreamRaise(r, "JSONDecodeError")
    [] line.kind = "data" ->
         IF line.content # ""
         THEN /\ frame' = [frame EXCEPT ![r].lines = @ + 1,
                                        ![r].lastDone = line.done,
                                        ![r].full_answer =
                                           Accumulate(@, line.content)]
              /\ YieldToken(r, line.content)
         ELSE /\ frame' = [frame EXCEPT ![r].lines = @ + 1,
                                        ![r].lastDone = line.done]
              /\ IF line.done THEN StreamEnd(r)
                 ELSE UNCHANGED <<pc, llm, events, raised>>

\* llm.py 155-169: the generator is waiting on the upstream response, whose
\* lines arrive as they come
StreamLine(r) ==
  /\ args[r].variant = "stream"
  /\ pc[r] = "Generating"
  /\ \/ /\ frame[r].lines = 0         \* resp.raise_for_status()
        /\ frame' = frame
        /\ StreamRaise(r, "HTTPError")
     \/ /\ frame' = frame             \* connection lost, read timeout
        /\ StreamRaise(r, "TransportError")
     \/ /\ frame' = frame             \* the body ends: aiter_lines is exhausted
        /\ StreamEnd(r)
     \/ /\ frame[r].lines < MaxLines
        /\ \E line \in UpstreamLines : StreamStep(r, line)
  /\ UNCHANGED <<others, now, conn, pool, chat_messages, chat_sessions, lastSave, toolCalls,
                 args, steps, sent>>

\* llm.py 155-169 when the response body is upstream[r]: the generator
\* reads the next line of the body, or finds the body at its end
ScriptedLine(r) ==
  /\ args[r].variant = "stream"
  /\ pc[r] = "Generating"
  /\ IF frame[r].lines < Len(upstream[r])
     THEN StreamStep(r, upstream[r][frame[r].lines + 1])
     ELSE /\ frame' = frame
          /\ StreamEnd(r)
  /\ UNCHANGED <<others, now, conn, pool, chat_messages, chat_sessions, lastSave, toolCalls,
                 args, steps, sent>>

\* the consumer asks for the next event after a token event: chat_llm_stream
\* resumes after its yield (llm.py 165), breaks if that line had done=true,
\* otherwise waits for the next line
PullAfterToken(r) ==
  /\ args[r].variant = "stream"
  /\ pc[r] = "TokenYielded"
  /\ IF frame[r].lastDone
     THEN StreamEnd(r)
     ELSE /\ pc' = [pc EXCEPT ![r] = "Generating"]
          /\ UNCHANGED <<llm, events, raised>>
  /\ UNCHANGED <<others, now, conn, pool, chat_messages, chat_sessions, lastSave, toolCalls,
                 args, frame, steps, sent>>

\* mutant of Abandon: a finally block persists what has been accumulated
Abandon_PersistPartial(r) ==
  /\ args[r].variant = "stream"
  /\ pc[r] \in {"DocsYielded", "TokenYielded", "DoneYielded", "Generating"}
  /\ pc' = [pc EXCEPT ![r] = "Closed"]
  /\ llm' = [llm EXCEPT ![r] = IF @ = "open" THEN "closed" ELSE @]
  /\ chat_messages' = InsertMessage(chat_messages, args[r].session_id,
                                    "assistant", frame[r].full_answer,
                                    args[r].lang, frame[r].source_docs, now)
  /\ frame' = [frame EXCEPT ![r].asstMsg = Len(chat_messages')]
  /\ steps' = [steps EXCEPT ![r] = Append(@, "save_message:assistant")]
  /\ UNCHANGED <<others, now, conn, pool, chat_sessions, lastSave, toolCalls,
                 args, events, sent, raised>>

\* the consumer drops the generator while it is suspended at a yield
\* (aclose(): GeneratorExit is raised at the yield) or while it waits for the
\* completion service (the consuming task is cancelled)
Abandon(r) ==
  /\ args[r].variant = "stream"
  /\ pc[r] \in {"DocsYielded", "TokenYielded", "DoneYielded", "Generating"}
  /\ pc' = [pc EXCEPT ![r] = "Closed"]
  /\ llm' = [llm EXCEPT ![r] = IF @ = "open" THEN "closed" ELSE @]
  /\ UNCHANGED <<others, now, conn, pool, chat_messages, chat_sessions, lastSave, toolCalls,
                 args, frame, steps, events, sent, raised>>

\* ------------------------------------------------------------- environment
\* main.py 131-155: the save_message tool, called with any role
ToolSaveMessage ==
  /\ toolCalls < MaxToolCalls
  /\ toolCalls' = toolCalls + 1
  /\ \E session_id \in ToolSessions, role \in ToolRoles, out \in SaveOutcomes :
       save_message("tool", session_id, role, "note", "ko", <<>>, out)
  /\ UNCHANGED <<others, now, conn, args, pc, frame, steps, events, llm, sent, raised>>

\* the database clock advances
Tick ==
  /\ now < MaxTime
  /\ now' = now + 1
  /\ UNCHANGED <<others, pool, conn, chat_messages, chat_sessions, lastSave, toolCalls, args,
                 pc, frame, steps, events, llm, sent, raised>>

Next ==
  \/ \E r \in Reqs : GetHistory(r)
  \/ \E r \in Reqs : SaveUser(r)
  \/ \E r \in Reqs : Search(r)
  \/ \E r \in Reqs : BuildContext(r)
  \/ \E r \in Reqs : ChatIssue(r)
  \/ \E r \in Reqs : ChatReturn(r)
  \/ \E r \in Reqs : YieldDocs(r)
  \/ \E r \in Reqs : PullAfterDocs(r)
  \/ \E r \in Reqs : StreamLine(r)
  \/ \E r \in Reqs : PullAfterToken(r)
  \/ \E r \in Reqs : SaveAssistant(r)
  \/ \E r \in Reqs : Abandon(r)
  \/ ToolSaveMessage
  \/ Tick

Spec == Init /\ [][Next]_vars

\* ================================================================== claims
Stream(r) == pc[r] # "Absent" /\ args[r].variant = "stream"

\* the row the pipeline's user-message save returned, if it is the user turn
\* of request r
UserRowOf(r) ==
  /\ frame[r].userMsg \in 1..Len(chat_messages)
  /\ chat_messages[frame[r].userMsg].session_id = args[r].session_id
  /\ chat_messages[frame[r].userMsg].role = "user"
  /\ chat_messages[frame[r].userMsg].content = user_query(r)

\* the user turn of request r can be read back from the session's history
UserTurnInHistory(r) ==
  [role |-> "user", content |-> user_query(r)]
    \in Range(ChatMessages(SessionRows(chat_messages, args[r].session_id)))

RECURSIVE TokenConcat(_)
TokenConcat(evs) ==
  IF evs = <<>> THEN ""
  ELSE (IF Head(evs).type = "token" THEN Head(evs).content ELSE "")
         \o TokenConcat(Tail(evs))

\* C2: a streaming run whose completion stream ended without error has
\* emitted exactly: one docs event, then token events, then one done event;
\* and at any time docs is only the first event and done only the last.
C2_StreamEventOrder ==
  \A r \in Reqs : Stream(r) =>
    LET evs == events[r] IN
    /\ \A i \in 1..Len(evs) : /\ (evs[i].type = "docs") <=> (i = 1)
                              /\ (evs[i].type = "done") => (i = Len(evs))
                              /\ evs[i].type \in {"docs", "token", "done"}
    /\ llm[r] = "exhausted" =>
         /\ Len(evs) >= 2
         /\ evs[1].type = "docs"
         /\ evs[Len(evs)].type = "done"
         /\ \A i \in 2..(Len(evs) - 1) : evs[i].type = "token"

C2_Witness ==
  \E r \in Reqs : /\ Stream(r) /\ llm[r] = "exhausted"
                  /\ Len(events[r]) = 4 /\ events[r][2].type = "token"

\* C3: in the streaming variant a persisted assistant message has as its
\* content the concatenation of the token events emitted for the request.
C3_PersistedEqualsTokens ==
  \A r \in Reqs : Stream(r) =>
    /\ frame[r].asstMsg # 0 =>
         chat_messages[frame[r].asstMsg].content = TokenConcat(events[r])
    /\ (lastSave.caller = r /\ lastSave.role = "assistant" /\ lastSave.id # 0) =>
         chat_messages[lastSave.id].content = TokenConcat(events[r])

C3_Witness ==
  \E r \in Reqs : /\ Stream(r) /\ frame[r].asstMsg # 0
                  /\ chat_messages[frame[r].asstMsg].content = "ab"

\* C4: in the streaming variant, when the completion stream has failed
\* (HTTP error, connection error, undecodable line), no done event has been
\* emitted and no assistant message has been saved for the request.
C4_NoDoneAfterStreamFailure ==
  \A r \in Reqs : (Stream(r) /\ llm[r] = "failed") =>
    /\ \A i \in 1..Len(events[r]) : events[r][i].type # "done"
    /\ "save_message:assistant" \notin Range(steps[r])
    /\ frame[r].asstMsg = 0
    /\ ~(lastSave.caller = r /\ lastSave.role = "assistant")
    /\ raised[r].step = "chat_llm_stream"

C4_Witness ==
  \E r \in Reqs : /\ Stream(r) /\ llm[r] = "failed"
                  /\ raised[r].exc = "JSONDecodeError"
                  /\ frame[r].full_answer # ""

\* C5: a streaming run that has emitted the done event and has ended
\* because the consumer stopped pulling has persisted the assistant message.
C5_DoneThenPersisted ==
  \A r \in Reqs :
    (Stream(r) /\ pc[r] = "Closed" /\ DoneEvent \in Range(events[r])) =>
      /\ frame[r].asstMsg # 0
      /\ "save_message:assistant" \in Range(steps[r])

\* the calls of one request in program order
StepOrder(variant) ==
  <<"get_history", "save_message:user", "search_rag", "build_context",
    IF variant = "blocking" THEN "chat_llm" ELSE "chat_llm_stream",
    "save_message:assistant">>

C7_FailureStopsPipeline ==
  \A r \in Reqs : raised[r] # NoError =>
    /\ pc[r] = "Failed"
    /\ Last(steps[r]) = raised[r].step
    /\ raised[r].step \in {"get_history", "save_message:user"} =>
         "search_rag" \notin Range(steps[r]) /\ sent[r] = <<>>
    /\ raised[r].step = "search_rag" => sent[r] = <<>> /\ llm[r] = "none"
    /\ raised[r].step \in {"chat_llm", "chat_llm_stream"} =>
         /\ "save_message:assistant" \notin Range(steps[r])
         /\ frame[r].asstMsg = 0
         /\ ~(lastSave.caller = r /\ lastSave.role = "assistant")

C7_Witness ==
  \E r \in Reqs : /\ pc[r] = "Failed"
                  /\ raised[r] = [step |-> "search_rag", exc |-> "PostgresError"]
                  /\ sent[r] = <<>>

\* C8: after a save_message call on an existing session has returned or
\* failed, the message row is written if and only if the session's
\* updated_at was written by the call; a call that failed has written
\* neither.
C8_SaveIsOneUnit ==
  (lastSave.out # "none" /\ lastSave.session_id \in DOMAIN chat_sessions) =>
    /\ (lastSave.id # 0) <=> (lastSave.updated = 1)
    /\ lastSave.out # "ok" => lastSave.id = 0 /\ lastSave.updated = 0

\* C9 as stated: after a successful save_message the session exists and its
\* updated_at is the time of that save.
C9_SaveCreatesSession ==
  lastSave.out = "ok" =>
    /\ lastSave.session_id \in DOMAIN chat_sessions
    /\ chat_sessions[lastSave.session_id] = lastSave.at

\* C9 amended: after a successful save_message on a session that exists, the
\* session's updated_at is the time of that save; save_message never creates
\* a session (the set of sessions stays what it was at the start).
C9_SaveStampsExistingSession ==
  /\ DOMAIN chat_sessions = InitialSessions
  /\ (lastSave.out = "ok" /\ lastSave.session_id \in DOMAIN chat_sessions) =>
       chat_sessions[lastSave.session_id] = lastSave.at

C9_Witness ==
  /\ lastSave.out = "ok" /\ lastSave.session_id = "s1" /\ lastSave.at = 1
  /\ chat_sessions["s1"] = 1
  /\ \E i \in 1..Len(chat_messages) : chat_messages[i].session_id = "s2"

\* C10: a save_message call with a role other than user or assistant raises
\* before get_pool() and writes nothing: the pool handle, the message table
\* and the sessions are as before the call; every row of chat_messages has
\* role user or assistant.
C10_RoleValidated ==
  [][ /\ (lastSave'.role \notin {"user", "assistant", "none"}
            /\ toolCalls' # toolCalls) =>
          /\ lastSave'.out = "ValueError"
          /\ UNCHANGED <<pool, chat_messages, chat_sessions>>
      /\ \A i \in 1..Len(chat_messages') :
           chat_messages'[i].role \in {"user", "assistant"} ]_vars

C10_Witness ==
  /\ lastSave.role = "system" /\ lastSave.out = "ValueError"
  /\ pool = "None" /\ chat_messages = InitialMessages

\* ------------------------------------------------ get_history on any table
\* a chat_messages table of n rows in physical order: row i belongs to
\* session ss[i] and was stamped ts[i]; stamps need not follow the physical
\* order (concurrent writers) and may be equal
TableOf(n, ss, ts) ==
  [i \in 1..n |-> [id |-> i, session_id |-> ss[i],
                   role |-> IF i % 2 = 1 THEN "user" ELSE "assistant",
                   content |-> "m" \o NatStr(i), lang |-> "ko",
                   source_docs |-> <<>>, created_at |-> ts[i]]]

Tables ==
  UNION { { TableOf(n, ss, ts) : ss \in [1..n -> Sessions],
                                 ts \in [1..n -> 0..MaxTime] } : n \in 0..MaxRows }

HistoryArgs == [variant : {"blocking"}, session_id : Sessions, lang : {"ko"},
                rag_limit : {2}, history_limit : 0..MaxLimit,
                source_table : {NoTable}]

InitHistory ==
  /\ now = MaxTime
  /\ pool = "None"
  /\ conn = PooledConn
  /\ chat_messages \in Tables
  /\ chat_sessions = [s \in InitialSessions |-> 0]
  /\ lastSave = NoSave
  /\ toolCalls = 0
  /\ args \in {f \in [Reqs -> HistoryArgs \cup {DefaultArgs}] :
                 f["r1"] \in HistoryArgs /\ f["r2"] = DefaultArgs}
  /\ pc = [r \in Reqs |-> IF r = "r1" THEN "Idle" ELSE "Absent"]
  /\ frame = [r \in Reqs |-> EmptyFrame]
  /\ steps = [r \in Reqs |-> <<>>]
  /\ events = [r \in Reqs |-> <<>>]
  /\ llm = [r \in Reqs |-> "none"]
  /\ sent = [r \in Reqs |-> <<>>]
  /\ raised = [r \in Reqs |-> NoError]
  /\ upstream = [r \in Reqs |-> NoBody]
  /\ http = [r \in Reqs |-> NoRequest]
  /\ scopes = NoScopes
  /\ pools = NoPools
  /\ getters = [c \in Callers |-> IdleCaller]

NextHistory == \E r \in Reqs : GetHistory(r)

SpecHistory == InitHistory /\ [][NextHistory]_vars

\* C11: whatever the physical order of the table, the rows get_history
\* fetched are in non-decreasing created_at order and the returned messages
\* are those rows in that order.
C11_HistoryOldestFirst ==
  \A r \in Reqs :
    LET rows == frame[r].rows IN
    /\ \A i, j \in 1..Len(rows) : i < j => rows[i].created_at <= rows[j].created_at
    /\ frame[r].history = ChatMessages(rows)
    /\ pc[r] = "HistoryFetched" =>
         Len(rows) = Min(args[r].history_limit,
                         Len(SessionRows(chat_messages, args[r].session_id)))

C11_Witness ==
  \E r \in Reqs :
    /\ pc[r] = "HistoryFetched"
    /\ Len(frame[r].rows) = 3
    /\ frame[r].rows[1].id > frame[r].rows[2].id
    /\ frame[r].rows[1].created_at < frame[r].rows[2].created_at
    /\ frame[r].history[1].content = "m" \o NatStr(frame[r].rows[1].id)

\* C12: get_history returns at most limit rows, all of the requested
\* session, none twice, as many as the session has up to limit, and no
\* row of the session that was left out is newer than a returned one.
C12_HistoryMostRecent ==
  \A r \in Reqs : pc[r] = "HistoryFetched" =>
    LET rows == frame[r].rows
        all == Range(SessionRows(chat_messages, args[r].session_id))
    IN  /\ Len(rows) <= args[r].history_limit
        /\ Range(rows) \subseteq all
        /\ Cardinality(Range(rows)) = Len(rows)
        /\ Len(rows) = Min(args[r].history_limit, Cardinality(all))
        /\ \A x \in Range(rows), y \in all \ Range(rows) :
             x.created_at >= y.created_at

C12_Witness ==
  \E r \in Reqs :
    /\ pc[r] = "HistoryFetched"
    /\ args[r].history_limit = 1
    /\ Len(frame[r].rows) = 1
    /\ \E y \in Range(SessionRows(chat_messages, args[r].session_id)) :
         y.created_at < frame[r].rows[1].created_at /\ y.id > frame[r].rows[1].id
    /\ \E i \in 1..Len(chat_messages) :
         chat_messages[i].session_id # args[r].session_id

\* ------------------------------------------------------ C13 .. C16 (Spec)
\* t occurs in s
Contains(s, t) ==
  \E i \in 0..(Len(s) - Len(t)) : SubSeq(s, i + 1, i + Len(t)) = t

\* C13: the body sent to the completion service carries the context text, in
\* the system message or in the final user turn, when the context is not
\* empty, and carries no reference block when the context is empty.
C13_ContextSent ==
  \A r \in Reqs : sent[r] # <<>> =>
    LET turns == sent[r].messages IN
    IF frame[r].context # ""
    THEN \E i \in {1, Len(turns)} : Contains(turns[i].content, frame[r].context)
    ELSE \A i \in 1..Len(turns) : ~Contains(turns[i].content, "[reference]")

\* C14: the system prompt sent to the completion service is the prompt of
\* the request's lang when lang is ko, en or ja, and the ko prompt otherwise.
C14_PromptByLang ==
  \A r \in Reqs : sent[r] # <<>> =>
    /\ sent[r].messages[1].role = "system"
    /\ sent[r].messages[1].content =
         (IF args[r].lang \in {"ko", "en", "ja"}
          THEN "SYSTEM_PROMPTS[" \o args[r].lang \o "]"
          ELSE "SYSTEM_PROMPTS[ko]")

\* row is the projection (source_table, source_id, similarity) of docs, in
\* the same order
IsProjection(source_docs, docs) ==
  /\ Len(source_docs) = Len(docs)
  /\ \A i \in 1..Len(docs) :
       /\ source_docs[i].source_table = docs[i].source_table
       /\ source_docs[i].source_id = docs[i].source_id
       /\ source_docs[i].similarity = docs[i].similarity
       /\ DOMAIN source_docs[i] = {"source_table", "source_id", "similarity"}

\* C15: a blocking request that ended normally has persisted an assistant
\* row whose content is the returned answer and whose source_docs are the
\* projection of the returned docs in the same order; the docs are at most
\* rag_limit.
C15_BlockingPersistsAnswer ==
  \A r \in Reqs :
    (args[r].variant = "blocking" /\ pc[r] = "AssistantPersisted") =>
      LET row == chat_messages[frame[r].asstMsg] IN
      /\ row.role = "assistant"
      /\ row.session_id = args[r].session_id
      /\ row.content = frame[r].answer
      /\ IsProjection(row.source_docs, frame[r].docs)
      /\ Len(frame[r].docs) <= args[r].rag_limit

C15_Witness ==
  \E r \in Reqs :
    /\ args[r].variant = "blocking" /\ pc[r] = "AssistantPersisted"
    /\ chat_messages[frame[r].asstMsg].content = "ab"
    /\ Len(chat_messages[frame[r].asstMsg].source_docs) = 2
    /\ chat_messages[frame[r].asstMsg].source_docs[1].source_id = "q1"
    /\ Cardinality(Matching(args[r].lang, args[r].source_table)) > args[r].rag_limit

\* C16: in the streaming variant the source_docs of the persisted assistant
\* row are the list carried by the docs event, which is the projection of
\* the documents retrieved, whatever tokens were generated.
C16_StreamProvenance ==
  \A r \in Reqs : Stream(r) =>
    /\ events[r] # <<>> =>
         /\ events[r][1].type = "docs"
         /\ IsProjection(events[r][1].docs, frame[r].docs)
    /\ frame[r].asstMsg # 0 =>
         chat_messages[frame[r].asstMsg].source_docs = events[r][1].docs
    /\ (lastSave.caller = r /\ lastSave.role = "assistant" /\ lastSave.id # 0) =>
         chat_messages[lastSave.id].source_docs = events[r][1].docs

C16_Witness ==
  \E r \in Reqs :
    /\ Stream(r) /\ pc[r] = "AssistantPersisted"
    /\ Len(events[r][1].docs) = 2
    /\ chat_messages[frame[r].asstMsg].source_docs = events[r][1].docs
    /\ frame[r].full_answer = "ba"

\* ------------------------------------------------------------ SpecSearch
\* search_rag on its own: request r1 is about to call it, with any lang,
\* limit and source_table.
SearchLangs == {"ko", "en", "ja"}

SearchTables == {NoTable, "", "quest", "item"}

SearchArgs == [variant : Variants, session_id : {"s1"}, lang : SearchLangs,
               rag_limit : 0..MaxLimit, history_limit : {2},
               source_table : SearchTables]

InitSearch ==
  /\ now = 0
  /\ pool = "open"
  /\ conn = PooledConn
  /\ chat_messages = InitialMessages
  /\ chat_sessions = [s \in InitialSessions |-> 0]
  /\ lastSave = NoSave
  /\ toolCalls = 0
  /\ args \in {f \in [Reqs -> SearchArgs \cup {DefaultArgs}] :
                 f["r1"] \in SearchArgs /\ f["r2"] = DefaultArgs}
  /\ pc = [r \in Reqs |-> IF r = "r1" THEN Before(args[r].variant, "search_rag")
                          ELSE "Absent"]
  /\ frame = [r \in Reqs |-> EmptyFrame]
  /\ steps = [r \in Reqs |-> <<>>]
  /\ events = [r \in Reqs |-> <<>>]
  /\ llm = [r \in Reqs |-> "none"]
  /\ sent = [r \in Reqs |-> <<>>]
  /\ raised = [r \in Reqs |-> NoError]
  /\ upstream = [r \in Reqs |-> NoBody]
  /\ http = [r \in Reqs |-> NoRequest]
  /\ scopes = NoScopes
  /\ pools = NoPools
  /\ getters = [c \in Callers |-> IdleCaller]

NextSearch == \E r \in Reqs : Search(r)

SpecSearch == InitSearch /\ [][NextSearch]_vars

\* the row of rag_documents a returned document was built from
RowOf(doc) == CHOOSE d \in rag_documents : d.source_id = doc.source_id

\* the rows that pass the filters of the call: lang, and source_table when
\* one is supplied
Passing(lang, source_table) ==
  { d \in rag_documents :
      /\ d.lang = lang
      /\ (source_table # NoTable => d.source_table = source_table) }

\* C17: search_rag returns at most limit documents, all of the requested
\* lang and, when a source_table is supplied, all of that source_table; they
\* are the nearest rows by distance among those passing the filters.
C17_SearchFiltersAndNearest ==
  \A r \in Reqs : pc[r] = "Retrieved" =>
    LET docs == frame[r].docs
        pass == Passing(args[r].lang, args[r].source_table)
        got  == { RowOf(docs[i]) : i \in 1..Len(docs) }
    IN  /\ Len(docs) <= args[r].rag_limit
        /\ \A i \in 1..Len(docs) : docs[i].lang = args[r].lang
        /\ args[r].source_table # NoTable =>
             \A i \in 1..Len(docs) : docs[i].source_table = args[r].source_table
        /\ got \subseteq pass
        /\ Cardinality(got) = Min(args[r].rag_limit, Cardinality(pass))
        /\ \A d \in got : \A e \in pass \ got : d.dist <= e.dist

C20_ProbesScopedToQuery ==
  /\ \A r \in Reqs : frame[r].probes # 0 => frame[r].probes = IVF_PROBES
  /\ ProbesInEffect(conn) = DefaultProbes

\* ----------------------------------------------------------- SpecContext
\* build_context on its own: request r1 holds any list of up to MaxDocs
\* documents and is about to build the context.
ContextDocs == { RagDocument(d) : d \in rag_documents }

DocLists == UNION { [1..n -> ContextDocs] : n \in 0..MaxDocs }

InitContext ==
  /\ now = 0
  /\ pool = "open"
  /\ conn = PooledConn
  /\ chat_messages = InitialMessages
  /\ chat_sessions = [s \in InitialSessions |-> 0]
  /\ lastSave = NoSave
  /\ toolCalls = 0
  /\ args = [r \in Reqs |-> DefaultArgs]
  /\ pc = [r \in Reqs |-> IF r = "r1" THEN Before(args[r].variant, "build_context")
                          ELSE "Absent"]
  /\ \E docs \in DocLists :
       frame = [r \in Reqs |-> IF r = "r1" THEN [EmptyFrame EXCEPT !.docs = docs]
                               ELSE EmptyFrame]
  /\ steps = [r \in Reqs |-> <<>>]
  /\ events = [r \in Reqs |-> <<>>]
  /\ llm = [r \in Reqs |-> "none"]
  /\ sent = [r \in Reqs |-> <<>>]
  /\ raised = [r \in Reqs |-> NoError]
  /\ upstream = [r \in Reqs |-> NoBody]
  /\ http = [r \in Reqs |-> NoRequest]
  /\ scopes = NoScopes
  /\ pools = NoPools
  /\ getters = [c \in Callers |-> IdleCaller]

NextContext == \E r \in Reqs : BuildContext(r)

SpecContext == InitContext /\ [][NextContext]_vars

\* the positions at which t occurs in s
Occurrences(s, t) ==
  { i \in 1..(Len(s) - Len(t) + 1) : SubSeq(s, i, i + Len(t) - 1) = t }

\* the text "[doc i]" that numbers document i
Number(i) == "[doc " \o NatStr(i) \o "]"

\* s ends with t
EndsWith(s, t) ==
  Len(s) >= Len(t) /\ SubSeq(s, Len(s) - Len(t) + 1, Len(s)) = t

\* C19: build_context returns "" exactly for the empty list; for a list of
\* n documents the numbers 1..n occur once each, in input order, the text
\* starts with number 1, no other number occurs, and the part of document i
\* ends with its content, verbatim.
C19_ContextNumbersDocs ==
  \A r \in Reqs : pc[r] = "ContextBuilt" =>
    LET docs == frame[r].docs
        ctx  == frame[r].context
        n    == Len(docs)
        at(i) == IF i > n THEN Len(ctx) + 3
                 ELSE CHOOSE p \in Occurrences(ctx, Number(i)) : TRUE
    IN  /\ (ctx = "") <=> (docs = <<>>)
        /\ Occurrences(ctx, Number(0)) = {}
        /\ Occurrences(ctx, Number(n + 1)) = {}
        /\ \A i \in 1..n :
             /\ Cardinality(Occurrences(ctx, Number(i))) = 1
             /\ i = 1 => at(i) = 1
             /\ at(i) < at(i + 1)
             /\ EndsWith(SubSeq(ctx, at(i), at(i + 1) - 3), "\n" \o docs[i].content)

C19_Witness ==
  \E r \in Reqs :
    /\ pc[r] = "ContextBuilt"
    /\ Len(frame[r].docs) = 3
    /\ frame[r].docs[1].source_id = "q2"
    /\ frame[r].docs[2].source_id = "i2"
    /\ frame[r].docs[3].source_id = "q2"
    /\ Contains(frame[r].context, "[doc 3] (source: quest, similarity: 0.5432)\nQ2")
    /\ Contains(frame[r].context, "similarity: -0.3)\nI2\n\n[doc 3]")

\* ------------------------------------------- C24, C25, C27, C29 (Spec)
DoneEmitted(r) == \E i \in 1..Len(events[r]) : events[r][i].type = "done"

\* the consumer has dropped the streaming request r before its done event
ClosedBeforeDone(r) == Stream(r) /\ pc[r] = "Closed" /\ ~DoneEmitted(r)

\* C24: once the consumer has abandoned a streaming request before its done
\* event, no further event is produced for it and no assistant message is
\* saved for it: the save is never issued and no row is written.
C24_AbandonStops ==
  /\ [](\A r \in Reqs : ClosedBeforeDone(r) =>
          /\ frame[r].asstMsg = 0
          /\ "save_message:assistant" \notin Range(steps[r]))
  /\ [][\A r \in Reqs : ClosedBeforeDone(r) =>
          /\ events'[r] = events[r]
          /\ steps'[r] = steps[r]
          /\ pc'[r] = "Closed"
          /\ (chat_messages' # chat_messages => lastSave'.caller # r)]_vars

C24_Witness ==
  \E r \in Reqs :
    /\ ClosedBeforeDone(r)
    /\ Len(events[r]) = 2
    /\ events[r][2].type = "token"
    /\ frame[r].full_answer = "a"
    /\ frame[r].userMsg # 0

\* what request r passed to its assistant save
SavedContent(r) ==
  IF args[r].variant = "blocking" THEN frame[r].answer ELSE frame[r].full_answer

\* C25 as stated: after the assistant save, reading the session back through
\* get_history returns a message with the identical content and the
\* identical provenance list.
C25_RoundTripWithProvenance ==
  \A r \in Reqs : frame[r].asstMsg # 0 =>
    \A h \in get_history(chat_messages, args[r].session_id, Len(chat_messages)) :
      \E i \in 1..Len(h) :
        /\ h[i].role = "assistant"
        /\ h[i].content = SavedContent(r)
        /\ "source_docs" \in DOMAIN h[i]
        /\ h[i].source_docs = SourceDocs(frame[r].docs)

\* C25 amended: after the assistant save, the stored row holds the identical
\* content and the identical provenance list, and reading the session back
\* through get_history returns the message with the identical content;
\* get_history returns role and content only.
C25_RoundTripContent ==
  \A r \in Reqs : frame[r].asstMsg # 0 =>
    /\ chat_messages[frame[r].asstMsg].content = SavedContent(r)
    /\ IsProjection(chat_messages[frame[r].asstMsg].source_docs, frame[r].docs)
    /\ \A h \in get_history(chat_messages, args[r].session_id, Len(chat_messages)) :
         /\ \E i \in 1..Len(h) :
              h[i] = [role |-> "assistant", content |-> SavedContent(r)]
         /\ \A i \in 1..Len(h) : DOMAIN h[i] = {"role", "content"}

C25_Witness ==
  \E r \in Reqs :
    /\ frame[r].asstMsg # 0
    /\ SavedContent(r) = "ab"
    /\ Len(chat_messages[frame[r].asstMsg].source_docs) = 2
    /\ Len(SessionRows(chat_messages, args[r].session_id)) >= 4

\* C27: the turns sent to the completion service are the system prompt,
\* then the history fetched in step 1 (at most history_limit rows of the
\* session, oldest first, none of them the row saved in step 2), then the
\* current user query as the final turn.
C27_TurnsSent ==
  \A r \in Reqs : sent[r] # <<>> =>
    LET turns == sent[r].messages
        rows  == frame[r].rows
        n     == Len(rows)
    IN  /\ Len(turns) = n + 2
        /\ turns[1].role = "system"
        /\ \A i \in 1..n :
             /\ turns[i + 1] = [role |-> rows[i].role, content |-> rows[i].content]
             /\ rows[i].session_id = args[r].session_id
             /\ rows[i].id # frame[r].userMsg
        /\ \A i \in 1..(n - 1) : rows[i].created_at <= rows[i + 1].created_at
        /\ n <= args[r].history_limit
        /\ turns[n + 2] = [role |-> "user", content |-> user_query(r)]
        /\ chat_messages[frame[r].userMsg].content = user_query(r)

C27_Witness ==
  \E r \in Reqs :
    /\ sent[r] # <<>>
    /\ Len(sent[r].messages) = 4
    /\ sent[r].messages[2].content = "q0"
    /\ sent[r].messages[3].content = "a0"
    /\ sent[r].messages[4].content = user_query(r)

\* C29: in the streaming variant a done event is emitted, and an assistant
\* message persisted, only if the completion service delivered a line with
\* done=true.
C29_DoneOnlyAfterDoneLine ==
  \A r \in Reqs : Stream(r) =>
    /\ DoneEmitted(r) => frame[r].lastDone
    /\ frame[r].asstMsg # 0 => frame[r].lastDone

\* -------------------------------------------------------- SpecConcurrent
\* Two requests run concurrently on session s1 and their steps interleave in
\* any order.  r1 runs either variant and asks in ko, r2 runs the blocking
\* variant and asks in en.
ConcurrentArgs(r) ==
  [variant : IF r = "r1" THEN Variants ELSE {"blocking"}, session_id : {"s1"},
   lang : {IF r = "r1" THEN "ko" ELSE "en"},
   rag_limit : {IF r = "r1" THEN 2 ELSE 1}, history_limit : {2},
   source_table : {NoTable}]

InitConcurrent ==
  /\ now = 0
  /\ pool = "open"
  /\ conn = PooledConn
  /\ chat_messages = InitialMessages
  /\ chat_sessions = [s \in InitialSessions |-> 0]
  /\ lastSave = NoSave
  /\ toolCalls = 0
  /\ args \in {f \in [Reqs -> UNION {ConcurrentArgs(r) : r \in Reqs}] :
                 \A r \in Reqs : f[r] \in ConcurrentArgs(r)}
  /\ pc = [r \in Reqs |-> "Idle"]
  /\ frame = [r \in Reqs |-> EmptyFrame]
  /\ steps = [r \in Reqs |-> <<>>]
  /\ events = [r \in Reqs |-> <<>>]
  /\ llm = [r \in Reqs |-> "none"]
  /\ sent = [r \in Reqs |-> <<>>]
  /\ raised = [r \in Reqs |-> NoError]
  /\ upstream = [r \in Reqs |-> NoBody]
  /\ http = [r \in Reqs |-> NoRequest]
  /\ scopes = NoScopes
  /\ pools = NoPools
  /\ getters = [c \in Callers |-> IdleCaller]

NextConcurrent ==
  \/ \E r \in Reqs : GetHistory(r)
  \/ \E r \in Reqs : SaveUser(r)
  \/ \E r \in Reqs : Search(r)
  \/ \E r \in Reqs : BuildContext(r)
  \/ \E r \in Reqs : ChatIssue(r)
  \/ \E r \in Reqs : ChatReturn(r)
  \/ \E r \in Reqs : YieldDocs(r)
  \/ \E r \in Reqs : PullAfterDocs(r)
  \/ \E r \in Reqs : StreamLine(r)
  \/ \E r \in Reqs : PullAfterToken(r)
  \/ \E r \in Reqs : SaveAssistant(r)
  \/ Tick

SpecConcurrent == InitConcurrent /\ [][NextConcurrent]_vars

\* request r has run to its end: the assistant message is persisted
Completed(r) == pc[r] = "AssistantPersisted"

\* C22: when both concurrent requests of a session have completed, their
\* four messages are four distinct rows of the session with the content each
\* request wrote, no row is missing or overwritten, and within each request
\* the user row was written before the assistant row.
C22_ConcurrentWritesKept ==
  (\A r \in Reqs : Completed(r)) =>
    /\ Len(chat_messages) = Len(InitialMessages) + 4
    /\ SubSeq(chat_messages, 1, Len(InitialMessages)) = InitialMessages
    /\ Cardinality(UNION {{frame[r].userMsg, frame[r].asstMsg} : r \in Reqs}) = 4
    /\ \A r \in Reqs :
         /\ UserRowOf(r)
         /\ frame[r].asstMsg \in 1..Len(chat_messages)
         /\ chat_messages[frame[r].asstMsg].session_id = args[r].session_id
         /\ chat_messages[frame[r].asstMsg].role = "assistant"
         /\ chat_messages[frame[r].asstMsg].content = SavedContent(r)
         /\ frame[r].userMsg < frame[r].asstMsg
         /\ chat_messages[frame[r].userMsg].created_at
              <= chat_messages[frame[r].asstMsg].created_at

C22_Witness ==
  /\ \A r \in Reqs : Completed(r)
  /\ frame["r1"].userMsg < frame["r2"].userMsg
  /\ frame["r2"].userMsg < frame["r1"].asstMsg
  /\ frame["r2"].asstMsg < frame["r1"].asstMsg
  /\ chat_messages[frame["r1"].userMsg].created_at
       = chat_messages[frame["r2"].asstMsg].created_at

\* C23: under any interleaving, what a run holds and persists is built
\* from its own arguments and responses: its history rows belong to its
\* session, its docs are a result of its own search, its context is built
\* from its docs, its turns end with its own query, its buffer is the
\* concatenation of its own token events, and its assistant row carries its
\* own answer, lang and provenance.
C23_RunsShareNothing ==
  \A r \in Reqs :
    /\ \A i \in 1..Len(frame[r].rows) :
         frame[r].rows[i].session_id = args[r].session_id
    /\ frame[r].history = ChatMessages(frame[r].rows)
    /\ frame[r].probes # 0 =>
         frame[r].docs \in search_rag(args[r].lang, args[r].rag_limit,
                                      args[r].source_table)
    /\ pc[r] \notin {"Idle", "HistoryFetched", "UserPersisted", "Retrieved", "Failed"} =>
         frame[r].context = build_context(frame[r].docs)
    /\ sent[r] # <<>> =>
         /\ frame[r].messages =
              Append(frame[r].history, [role |-> "user", content |-> user_query(r)])
         /\ sent[r].messages = <<sent[r].messages[1]>> \o frame[r].messages
    /\ args[r].variant = "stream" => frame[r].full_answer = TokenConcat(events[r])
    /\ frame[r].asstMsg # 0 =>
         /\ chat_messages[frame[r].asstMsg].content = SavedContent(r)
         /\ chat_messages[frame[r].asstMsg].lang = args[r].lang
         /\ chat_messages[frame[r].asstMsg].session_id = args[r].session_id
         /\ IsProjection(chat_messages[frame[r].asstMsg].source_docs, frame[r].docs)

C23_Witness ==
  /\ \A r \in Reqs : Completed(r)
  /\ args["r1"].variant = "stream"
  /\ frame["r1"].full_answer = "ab"
  /\ frame["r2"].answer = ""
  /\ Len(frame["r1"].docs) = 2
  /\ Len(frame["r2"].docs) = 1
  /\ frame["r2"].docs[1].lang = "en"
  /\ frame["r2"].asstMsg < frame["r1"].asstMsg
  /\ Len(frame["r2"].history) = 2
  /\ frame["r2"].history[2].content = user_query("r1")

\* ------------------------------------------------------------- SpecStream
\* One streaming request whose completion response body is fixed in advance:
\* any sequence of at most MaxLines + 1 lines, a done line anywhere in it.
Bodies == UNION {[1..n -> UpstreamLines] : n \in 0..(MaxLines + 1)}

StreamArgs ==
  [variant : {"stream"}, session_id : {"s1"}, lang : {"ko"}, rag_limit : {1},
   history_limit : {2}, source_table : {NoTable}]

InitStream ==
  /\ now = 0
  /\ pool = "None"
  /\ conn = PooledConn
  /\ chat_messages = InitialMessages
  /\ chat_sessions = [s \in InitialSessions |-> 0]
  /\ lastSave = NoSave
  /\ toolCalls = 0
  /\ args \in {f \in [Reqs -> StreamArgs \cup {DefaultArgs}] :
                 f["r1"] \in StreamArgs /\ f["r2"] = DefaultArgs}
  /\ pc = [r \in Reqs |-> IF r = "r1" THEN "Idle" ELSE "Absent"]
  /\ frame = [r \in Reqs |-> EmptyFrame]
  /\ steps = [r \in Reqs |-> <<>>]
  /\ events = [r \in Reqs |-> <<>>]
  /\ llm = [r \in Reqs |-> "none"]
  /\ sent = [r \in Reqs |-> <<>>]
  /\ raised = [r \in Reqs |-> NoError]
  /\ upstream \in {f \in [Reqs -> Bodies] : f["r2"] = NoBody}
  /\ http = [r \in Reqs |-> NoRequest]
  /\ scopes = NoScopes
  /\ pools = NoPools
  /\ getters = [c \in Callers |-> IdleCaller]

NextStream ==
  \/ \E r \in Reqs : GetHistory(r)
  \/ \E r \in Reqs : SaveUser(r)
  \/ \E r \in Reqs : Search(r)
  \/ \E r \in Reqs : BuildContext(r)
  \/ \E r \in Reqs : YieldDocs(r)
  \/ \E r \in Reqs : PullAfterDocs(r)
  \/ \E r \in Reqs : ScriptedLine(r)
  \/ \E r \in Reqs : PullAfterToken(r)
  \/ \E r \in Reqs : SaveAssistant(r)

SpecStream == InitStream /\ [][NextStream]_vars

\* the tokens chat_llm_stream has yielded so far, in order
RECURSIVE Yielded(_)
Yielded(evs) ==
  IF evs = <<>> THEN <<>>
  ELSE (IF Head(evs).type = "token" THEN <<Head(evs).content>> ELSE <<>>)
         \o Yielded(Tail(evs))

\* the lines of a body up to and including its first done line (or the
\* first line that cannot be decoded)
RECURSIVE UpToDone(_)
UpToDone(body) ==
  IF body = <<>> THEN <<>>
  ELSE IF Head(body).kind = "garbage" \/ (Head(body).kind = "data" /\ Head(body).done)
       THEN <<Head(body)>>
       ELSE <<Head(body)>> \o UpToDone(Tail(body))

\* the non-empty contents of the data lines of a sequence of lines
RECURSIVE Contents(_)
Contents(lines) ==
  IF lines = <<>> THEN <<>>
  ELSE (IF Head(lines).kind = "data" /\ Head(lines).content # ""
        THEN <<Head(lines).content>> ELSE <<>>)
         \o Contents(Tail(lines))

\* C28: the tokens chat_llm_stream yields are, in order, the non-empty
\* contents of the body's lines up to and including the first done line:
\* at any time a prefix of them, all of them when the generator has ended,
\* and no line after the first done line is read.
C28_YieldsUpToDone ==
  \A r \in Reqs :
    /\ IsPrefix(Yielded(events[r]), Contents(UpToDone(upstream[r])))
    /\ frame[r].lines <= Len(UpToDone(upstream[r]))
    /\ Len(Yielded(events[r])) <= Len(upstream[r])
    /\ llm[r] = "exhausted" =>
         /\ Yielded(events[r]) = Contents(UpToDone(upstream[r]))
         /\ frame[r].lines = Len(UpToDone(upstream[r]))

C28_Witness ==
  /\ llm["r1"] = "exhausted"
  /\ upstream["r1"] = <<BlankLine, DataLine("a", TRUE), DataLine("b", FALSE)>>
  /\ Yielded(events["r1"]) = <<"a">>
  /\ frame["r1"].lines = 2

\* ----------------------------------------------------------- SpecEndpoint
\* The synchronous chat endpoints: POST /api/rag/chat (main.py rag_chat) and
\* POST /chat (routers/chat.py chat).  A request names its route and says
\* which of the required fields its body carries.
Routes == {"rag_chat", "chat"}
Requests == [route : Routes, session_id : BOOLEAN, query : BOOLEAN, status : {0}]

MissingField(req) == ~req.session_id \/ ~req.query

\* main.py 72-87: the status rag_chat answers when the code inside its try
\* block returns (exc = "none") or raises exc
rag_chat(exc) ==
  IF exc = "none" THEN 200
  ELSE IF exc = "KeyError" THEN 422     \* except KeyError
  ELSE 500                              \* except Exception

\* routers/chat.py 27-39: every exception becomes HTTPException(500)
chat(exc) == IF exc = "none" THEN 200 ELSE 500

StatusOf(route, exc) == IF route = "rag_chat" THEN rag_chat(exc) ELSE chat(exc)

\* The request reaches the handler.  rag_chat reads body["session_id"] and
\* body["query"] inside its try block: an absent key raises KeyError
\* (main.py 75-76).  chat takes a ChatRequest: a body without a required
\* field is answered 422 before the handler runs (routers/chat.py 11-13).
Receive(r) ==
  /\ pc[r] = "Received"
  /\ IF MissingField(http[r])
     THEN /\ http' = [http EXCEPT ![r].status =
                        IF http[r].route = "rag_chat" THEN rag_chat("KeyError")
                        ELSE 422]
          /\ pc' = [pc EXCEPT ![r] = "Rejected"]
     ELSE /\ http' = http
          /\ pc' = [pc EXCEPT ![r] = "Idle"]
  /\ UNCHANGED <<now, conn, pool, chat_messages, chat_sessions, lastSave, toolCalls,
                 args, frame, steps, events, llm, sent, raised,
                 upstream, scopes, pools, getters>>

\* run_rag_pipeline has returned or raised: the handler answers
Respond(r) ==
  /\ http[r].route \in Routes
  /\ http[r].status = 0
  /\ pc[r] \in {"AssistantPersisted", "Failed"}
  /\ http' = [http EXCEPT ![r].status = StatusOf(http[r].route, raised[r].exc)]
  /\ UNCHANGED <<now, conn, pool, chat_messages, chat_sessions, lastSave, toolCalls,
                 args, pc, frame, steps, events, llm, sent, raised,
                 upstream, scopes, pools, getters>>

EndpointArgs ==
  [variant : {"blocking"}, session_id : {"s1"}, lang : {"ko", "en"},
   rag_limit : {1, 2}, history_limit : {2}, source_table : {NoTable}]

InitEndpoint ==
  /\ now = 0
  /\ pool = "None"
  /\ conn = PooledConn
  /\ chat_messages = InitialMessages
  /\ chat_sessions = [s \in InitialSessions |-> 0]
  /\ lastSave = NoSave
  /\ toolCalls = 0
  /\ args \in {f \in [Reqs -> EndpointArgs \cup {DefaultArgs}] :
                 f["r1"] \in EndpointArgs /\ f["r2"] = DefaultArgs}
  /\ pc = [r \in Reqs |-> IF r = "r1" THEN "Received" ELSE "Absent"]
  /\ frame = [r \in Reqs |-> EmptyFrame]
  /\ steps = [r \in Reqs |-> <<>>]
  /\ events = [r \in Reqs |-> <<>>]
  /\ llm = [r \in Reqs |-> "none"]
  /\ sent = [r \in Reqs |-> <<>>]
  /\ raised = [r \in Reqs |-> NoError]
  /\ upstream = [r \in Reqs |-> NoBody]
  /\ http \in {f \in [Reqs -> Requests \cup {NoRequest}] :
                 f["r1"] \in Requests /\ f["r2"] = NoRequest}
  /\ scopes = NoScopes
  /\ pools = NoPools
  /\ getters = [c \in Callers |-> IdleCaller]

NextEndpoint ==
  \/ \E r \in Reqs : Receive(r)
  \/ \E r \in Reqs : GetHistory(r)
  \/ \E r \in Reqs : SaveUser(r)
  \/ \E r \in Reqs : Search(r)
  \/ \E r \in Reqs : BuildContext(r)
  \/ \E r \in Reqs : ChatIssue(r)
  \/ \E r \in Reqs : ChatReturn(r)
  \/ \E r \in Reqs : SaveAssistant(r)
  \/ \E r \in Reqs : Respond(r)

SpecEndpoint == InitEndpoint /\ [][NextEndpoint]_vars

\* C26: an answered request has status 422 exactly when a required field
\* (session_id or query) is absent from its body, and a request whose
\* pipeline failed is answered 500.
C26_MissingFieldIff422 ==
  \A r \in Reqs :
    http[r].status # 0 =>
      /\ http[r].status = 422 <=> MissingField(http[r])
      /\ pc[r] = "Failed" => http[r].status = 500

\* --------------------------------------------------------------- SpecPool
\* The scoped acquisitions of one pool: operations of the three kinds are in
\* flight at once, each inside `async with pool.acquire() as conn`.
max_size == 10                     \* connection.py 13

RECURSIVE SumOver(_, _)
SumOver(f, S) ==
  IF S = {} THEN 0
  ELSE LET x == CHOOSE x \in S : TRUE IN f[x] + SumOver(f, S \ {x})

Waiting == SumOver(scopes.waiting, PoolOps)
Running == SumOver(scopes.running, Stages)

\* mutant of ScopeExit: the connection is released only when the body of
\* the scope ends normally
ScopeExit_OnSuccessOnly(held, failed) == IF failed THEN held ELSE held - 1

\* `async with pool.acquire()`: __aexit__ releases the connection when the
\* body ends, whether it returned or raised
ScopeExit(held, failed) == held - 1

\* history.py 19-20 / 51-52, retriever.py 22-23: an operation has the pool
\* and enters pool.acquire()
Enter(op) ==
  /\ Waiting + Running < MaxCalls
  /\ scopes' = [scopes EXCEPT !.waiting[op] = @ + 1]
  /\ UNCHANGED <<pipelines, upstream, http, pools, getters>>

\* the pool hands a connection out: it has fewer than max_size in use
Acquire(op) ==
  /\ scopes.waiting[op] > 0
  /\ scopes.held < max_size
  /\ scopes' = [scopes EXCEPT !.waiting[op] = @ - 1,
                              !.running[<<op, 0>>] = @ + 1,
                              !.held = @ + 1]
  /\ UNCHANGED <<pipelines, upstream, http, pools, getters>>

\* pool.acquire() raises (the server refuses the connection, the waiting
\* task is cancelled): the scope is never entered
AcquireRaise(op) ==
  /\ scopes.waiting[op] > 0
  /\ scopes' = [scopes EXCEPT !.waiting[op] = @ - 1]
  /\ UNCHANGED <<pipelines, upstream, http, pools, getters>>

\* a statement of the scope's body returns; after the last one the scope ends
StatementOk(st) ==
  /\ scopes.running[st] > 0
  /\ IF st[2] + 1 < Statements(st[1])
     THEN scopes' = [scopes EXCEPT !.running[st] = @ - 1,
                                   !.running[<<st[1], st[2] + 1>>] = @ + 1]
     ELSE scopes' = [scopes EXCEPT !.running[st] = @ - 1,
                                   !.held = ScopeExit(@, FALSE)]
  /\ UNCHANGED <<pipelines, upstream, http, pools, getters>>

\* a statement of the scope's body raises (or the task is cancelled while
\* it waits for the statement): the exception leaves the scope
StatementRaise(st) ==
  /\ scopes.running[st] > 0
  /\ scopes' = [scopes EXCEPT !.running[st] = @ - 1,
                              !.held = ScopeExit(@, TRUE)]
  /\ UNCHANGED <<pipelines, upstream, http, pools, getters>>

InitPool ==
  /\ now = 0
  /\ pool = "open"
  /\ conn = PooledConn
  /\ chat_messages = InitialMessages
  /\ chat_sessions = [s \in InitialSessions |-> 0]
  /\ lastSave = NoSave
  /\ toolCalls = 0
  /\ args = [r \in Reqs |-> DefaultArgs]
  /\ pc = [r \in Reqs |-> "Absent"]
  /\ frame = [r \in Reqs |-> EmptyFrame]
  /\ steps = [r \in Reqs |-> <<>>]
  /\ events = [r \in Reqs |-> <<>>]
  /\ llm = [r \in Reqs |-> "none"]
  /\ sent = [r \in Reqs |-> <<>>]
  /\ raised = [r \in Reqs |-> NoError]
  /\ upstream = [r \in Reqs |-> NoBody]
  /\ http = [r \in Reqs |-> NoRequest]
  /\ scopes = NoScopes
  /\ pools = NoPools
  /\ getters = [c \in Callers |-> IdleCaller]

NextPool ==
  \/ \E op \in PoolOps : Enter(op)
  \/ \E op \in PoolOps : Acquire(op)
  \/ \E op \in PoolOps : AcquireRaise(op)
  \/ \E st \in Stages : StatementOk(st)
  \/ \E st \in Stages : StatementRaise(st)

SpecPool == InitPool /\ [][NextPool]_vars

Creating == {c \in Callers : getters[c].pc = "creating"}

\* connection.py 9-10: get_pool is called; with _pool set it returns at
\* once (line 15), otherwise it starts create_pool and waits
GetPoolCheck(c) ==
  /\ getters[c].pc = "idle"
  /\ IF pools.handle # 0
     THEN /\ getters' = [getters EXCEPT ![c].got = pools.handle]
          /\ getters'[c] # getters[c]
     ELSE /\ Len(pools.created) + Cardinality(Creating) < MaxPools
          /\ getters' = [getters EXCEPT ![c].pc = "creating"]
  /\ pools' = pools
  /\ UNCHANGED <<pipelines, upstream, http, scopes>>

\* connection.py 10-15: create_pool returns; the new pool is assigned to
\* _pool and returned
GetPoolCreated(c) ==
  /\ getters[c].pc = "creating"
  /\ pools' = [handle  |-> Len(pools.created) + 1,
               created |-> Append(pools.created, "open")]
  /\ getters' = [getters EXCEPT ![c].pc = "idle",
                                ![c].got = Len(pools.created) + 1]
  /\ UNCHANGED <<pipelines, upstream, http, scopes>>

\* create_pool raises (the database is unreachable): _pool stays as it is
GetPoolRaise(c) ==
  /\ getters[c].pc = "creating"
  /\ getters' = [getters EXCEPT ![c].pc = "idle"]
  /\ pools' = pools
  /\ UNCHANGED <<pipelines, upstream, http, scopes>>

\* connection.py 20-21: close_pool is called with _pool set and starts
\* closing the pool _pool refers to
ClosePoolStart(c) ==
  /\ getters[c].pc = "idle"
  /\ pools.handle # 0
  /\ pools' = [pools EXCEPT !.created[pools.handle] = "closing"]
  /\ getters' = [getters EXCEPT ![c].pc = "closing", ![c].target = pools.handle]
  /\ UNCHANGED <<pipelines, upstream, http, scopes>>

\* connection.py 21-22: _pool.close() returns and _pool = None is assigned
ClosePoolDone(c) ==
  /\ getters[c].pc = "closing"
  /\ pools' = [handle  |-> 0,
               created |-> [pools.created EXCEPT ![getters[c].target] = "closed"]]
  /\ getters' = [getters EXCEPT ![c].pc = "idle", ![c].target = 0]
  /\ UNCHANGED <<pipelines, upstream, http, scopes>>

InitLifecycle ==
  /\ now = 0
  /\ pool = "None"
  /\ conn = PooledConn
  /\ chat_messages = InitialMessages
  /\ chat_sessions = [s \in InitialSessions |-> 0]
  /\ lastSave = NoSave
  /\ toolCalls = 0
  /\ args = [r \in Reqs |-> DefaultArgs]
  /\ pc = [r \in Reqs |-> "Absent"]
  /\ frame = [r \in Reqs |-> EmptyFrame]
  /\ steps = [r \in Reqs |-> <<>>]
  /\ events = [r \in Reqs |-> <<>>]
  /\ llm = [r \in Reqs |-> "none"]
  /\ sent = [r \in Reqs |-> <<>>]
  /\ raised = [r \in Reqs |-> NoError]
  /\ upstream = [r \in Reqs |-> NoBody]
  /\ http = [r \in Reqs |-> NoRequest]
  /\ scopes = NoScopes
  /\ pools = NoPools
  /\ getters = [c \in Callers |-> IdleCaller]

NextLifecycle ==
  \/ \E c \in Callers : GetPoolCheck(c)
  \/ \E c \in Callers : GetPoolCreated(c)
  \/ \E c \in Callers : GetPoolRaise(c)
  \/ \E c \in Callers : ClosePoolStart(c)
  \/ \E c \in Callers : ClosePoolDone(c)

SpecLifecycle == InitLifecycle /\ [][NextLifecycle]_vars

\* C30: until a pool is closed at most one pool has been created, every
\* pool that is open is the one _pool refers to (so concurrent first callers
\* hold the same pool and no pool is left unreferenced and unclosed), and
\* _pool never refers to a closed pool.
C30_SinglePool ==
  /\ (\A i \in DOMAIN pools.created : pools.created[i] = "open") =>
       Len(pools.created) <= 1
  /\ \A i \in DOMAIN pools.created :
       pools.created[i] = "open" => pools.handle = i
  /\ \A c, d \in Callers :
       (/\ getters[c].got # 0 /\ getters[d].got # 0
        /\ pools.created[getters[c].got] = "open"
        /\ pools.created[getters[d].got] = "open") => getters[c].got = getters[d].got
  /\ pools.handle # 0 => pools.created[pools.handle] # "closed"

====
